---- MODULE Spec2Model ----
(***************************************************************************)
(* A model of prysm's encircled-energy cache (prysm/psf.py, class PSF)     *)
(* and of the through-focus trace (prysm/mtf_utils.py, MTFvFvF).           *)
(*                                                                         *)
(* Numbers are fixed point.  A radius key counts units of 1e-5 um, the     *)
(* start of the plotting linspace.  Intensities and MTF values count       *)
(* 1/One.  Bessel values count 1/100.                                      *)
(***************************************************************************)
EXTENDS Integers, Sequences, FiniteSets, TLC

VARIABLES psf, ret, cube, trace, ffd

vars == <<psf, ret, cube, trace, ffd>>

---------------------------------------------------------------------------
(* Bounds of the model.                                                    *)

\* longest iterable of radii handed to encircled_energy
MaxLen == 2
\* most points the minimizer probes in one ee_radius call
MaxProbes == 1
\* most samples of the plotting linspace
MaxPts == 2

\* the radii asked for, in units of 1e-5 um: a negative one, zero, and the
\* first sample of the plot
Radii == {-1, 0, 1}

PSFs == {"a", "b"}

---------------------------------------------------------------------------
(* Sequence helpers.                                                       *)

RECURSIVE SumSeq(_)
SumSeq(s) == IF s = <<>> THEN 0 ELSE Head(s) + SumSeq(Tail(s))

RECURSIVE MaxSeq(_)
MaxSeq(s) ==
    IF Len(s) = 1 THEN Head(s)
    ELSE LET m == MaxSeq(Tail(s)) IN IF Head(s) >= m THEN Head(s) ELSE m

SeqsUpTo(S, n) == UNION {[1..k -> S] : k \in 0..n}

ISqrt(n) == CHOOSE s \in 0..n : s * s <= n /\ n < (s + 1) * (s + 1)

---------------------------------------------------------------------------
(* The insertion-ordered dict self._ee: a sequence of <<key, value>>.      *)

DictKeys(d) == [i \in 1..Len(d) |-> d[i][1]]

DictValues(d) == [i \in 1..Len(d) |-> d[i][2]]

InSeq(x, s) == \E i \in 1..Len(s) : s[i] = x

\* a faulty list.index: the last position holding x
LastIndexOf(x, s) == CHOOSE i \in 1..Len(s) : s[i] = x /\ \A j \in (i + 1)..Len(s) : s[j] # x

\* list.index: the first position holding x
IndexOf(x, s) == CHOOSE i \in 1..Len(s) : s[i] = x /\ \A j \in 1..(i - 1) : s[j] # x

DictHas(d, k) == InSeq(k, DictKeys(d))

DictGet(d, k) == d[IndexOf(k, DictKeys(d))][2]

\* d[k] = v for a key that is not in d yet
DictSet(d, k, v) == Append(d, <<k, v>>)

---------------------------------------------------------------------------
(* Numerical primitives.                                                   *)

One == 8 * 8

\* 1e-99, the replacement for a zero radial frequency, kept by its exponent
TINY == -99

\* 100 * J1(2 pi n) for n = 0 .. 20
J1Table == <<0, -21, -16, -13, -11, -10, -9, -8, -8, -7, -7,
             -7, -6, -6, -6, -6, -6, -5, -5, -5, -5>>

\* special.j1 at 2 pi n; J1 is odd
J1TwoPi(n) == IF n >= 0 THEN J1Table[n + 1] ELSE 0 - J1Table[(0 - n) + 1]

\* 100 * pi
PiCenti == 314

\* the frequency axes of the MTF of a 3 x 3 PSF
MtfX == <<-3, 0, 3>>

MtfY == <<-4, 0, 4>>

\* every radial frequency of the grid divides InvScale
InvScale == 3 * 4 * 5

\* MTF.from_psf: the transfer function's magnitude, 1.0 at its peak
MtfFromPsf(data) == [k \in 1..Len(data) |-> (data[k] * One) \div MaxSeq(data)]

\* e.meshgrid(x, y), row major: nx[i, j] = x[j], ny[i, j] = y[i]
MeshX(x, y) == [k \in 1..(Len(x) * Len(y)) |-> x[((k - 1) % Len(x)) + 1]]

MeshY(x, y) == [k \in 1..(Len(x) * Len(y)) |-> y[((k - 1) \div Len(x)) + 1]]

\* sqrt(nx ** 2 + ny ** 2), then every zero replaced by 1e-99
RadialFrequency(x, y) ==
    LET nx == MeshX(x, y)
        ny == MeshY(x, y)
        raw == [k \in 1..Len(nx) |-> ISqrt(nx[k] * nx[k] + ny[k] * ny[k])]
    IN  [k \in 1..Len(raw) |-> IF raw[k] = 0 THEN TINY ELSE raw[k]]

\* ny[1, 0] - ny[0, 0], nx[0, 1] - nx[0, 0]
Spacing(x, y) == <<y[2] - y[1], x[2] - x[1]>>

\* InvScale * 100 * j1(2 pi radius nu) / nu; at nu = 1e-99 the quotient
\* is pi * radius
IntegrationFourier(radius, nu) ==
    IF nu = TINY THEN PiCenti * radius * InvScale
    ELSE J1TwoPi(radius * nu) * (InvScale \div nu)

encircled_energy_core(mtf_data, radius, nu_p, dx, dy) ==
    LET dat == [k \in 1..Len(mtf_data) |->
                    mtf_data[k] * IntegrationFourier(radius, nu_p[k])]
    IN  radius * SumSeq(dat) * dx * dy

\* r / 1e3, um to mm: the count is kept and its unit becomes 1e-8 mm
ToMillimetre(r) == r

---------------------------------------------------------------------------
(* PSF: one record per instance.                                           *)
(*   data   the intensity samples, row major                               *)
(*   mtf    self._mtf.data, <<>> while self._mtf is None                   *)
(*   nu_p   self._nu_p, <<>> while None                                    *)
(*   dn     <<self._dnx, self._dny>>, <<>> while None                      *)
(*   ee     self._ee                                                       *)
(*   calls  the radii _encircled_energy_core ran for, in order             *)

\* a peak-normalised 3 x 3 spot
SpotData == <<16, 32, 16, 32, 64, 32, 16, 32, 16>>

PSFInit(x, y, data) ==
    [data |-> data, mtf |-> <<>>, nu_p |-> <<>>, dn |-> <<>>, ee |-> <<>>,
     calls |-> <<>>]

\* str.lower on the names the callers pass
Lower(s) ==
    CASE s = "AVG" -> "avg"
      [] s = "Mean" -> "mean"
      [] s = "Average" -> "average"
      [] s = "Peak" -> "peak"
      [] s = "TOTAL" -> "total"
      [] OTHER -> s

\* a faulty PSF whose _ee is one dict of the class
SetShared(all, p, s) ==
    [q \in DOMAIN all |-> IF q = p THEN s ELSE [all[q] EXCEPT !.ee = s.ee]]

\* an attribute write on self reaches this instance alone
SetSelf(all, p, s) == [all EXCEPT ![p] = s]

\* "if self._mtf is None:" and its body
ComputeMTF(s) ==
    IF s.mtf = <<>>
    THEN [s EXCEPT !.mtf = MtfFromPsf(s.data),
                   !.nu_p = RadialFrequency(MtfX, MtfY),
                   !.dn = Spacing(MtfX, MtfY)]
    ELSE s

\* a faulty encircled_energy that computes without asking the cache
MemoizeAlways(s, r) ==
    IF ~DictHas(s.ee, r)
    THEN [s EXCEPT !.ee = DictSet(@, r,
                       encircled_energy_core(s.mtf, ToMillimetre(r), s.nu_p,
                                           s.dn[1], s.dn[2])),
                   !.calls = Append(@, r)]
    ELSE [s EXCEPT !.calls = Append(@, r)]

\* "if r not in self._ee: self._ee[r] = _encircled_energy_core(...)"
Memoize(s, r) ==
    IF ~DictHas(s.ee, r)
    THEN [s EXCEPT !.ee = DictSet(@, r,
                       encircled_energy_core(s.mtf, ToMillimetre(r), s.nu_p,
                                           s.dn[1], s.dn[2])),
                   !.calls = Append(@, r)]
    ELSE s

\* the loop "for r in radius", from the state s
RECURSIVE MemoizeEach(_, _)
MemoizeEach(s, radius) ==
    IF radius = <<>> THEN s
    ELSE MemoizeEach(Memoize(s, Head(radius)), Tail(radius))

\* encircled_energy for a scalar radius: the state it leaves
EncircledEnergyState(s, radius) == Memoize(ComputeMTF(s), radius)

\* encircled_energy for an iterable: the state it leaves
EncircledEnergyArrayState(s, radius) == MemoizeEach(ComputeMTF(s), radius)

\* a faulty loop that appends to out only what it has just computed
EncircledEnergyArrayOutNew(s, radius) ==
    LET done == EncircledEnergyArrayState(s, radius)
        fresh == {i \in 1..Len(radius) :
                     /\ ~DictHas(s.ee, radius[i])
                     /\ \A j \in 1..(i - 1) : radius[j] # radius[i]}
        RECURSIVE Pick(_)
        Pick(i) == IF i > Len(radius) THEN <<>>
                   ELSE (IF i \in fresh THEN <<DictGet(done.ee, radius[i])>> ELSE <<>>)
                        \o Pick(i + 1)
    IN  Pick(1)

\* "out.append(self._ee[r])" for every r, read from the state the loop left
\* (a stored value is never replaced, so each read equals the read made
\* inside the loop)
EncircledEnergyArrayOut(s, radius) ==
    LET done == EncircledEnergyArrayState(s, radius)
    IN  [i \in 1..Len(radius) |-> DictGet(done.ee, radius[i])]

\* e.linspace(start, stop, num), rounded down to the key unit
Linspace(start, stop, num) ==
    IF num = 1 THEN <<start>>
    ELSE [i \in 1..num |-> start + (((i - 1) * (stop - start)) \div (num - 1))]

\* the first sample of the plot, 1e-5 um
LinspaceStart == 1

NoArg == <<>>

\* no axlim was passed: the call is not plot_encircled_energy
NoAxlim == [kind |-> "", val |-> 0]

\* a call that ended: for plot_encircled_energy arg is xx and out is yy
Ret(op, p, arg, out, minimized, status) ==
    [op |-> op, self |-> p, arg |-> arg, out |-> out,
     minimized |-> minimized, status |-> status, axlim |-> NoAxlim]

\* no call is waiting for its caller
Idle == Ret("", "", NoArg, NoArg, FALSE, "idle")

---------------------------------------------------------------------------
(* The values the callers pass.                                            *)

RadiusLists == SeqsUpTo(Radii, MaxLen)

ProbeLists == SeqsUpTo(Radii, MaxProbes) \ {<<>>}

FIRST_AIRY_ENCIRCLED == 8378

\* the energies a cache of SpotData can hold, and the default target
Energies ==
    {encircled_energy_core(MtfFromPsf(SpotData), ToMillimetre(r),
                         RadialFrequency(MtfX, MtfY),
                         Spacing(MtfX, MtfY)[1], Spacing(MtfX, MtfY)[2]) : r \in Radii}
    \cup {FIRST_AIRY_ENCIRCLED}

\* axlim: None, an int or a float
AxLims ==
    {[kind |-> "None", val |-> 0]}
    \cup {[kind |-> k, val |-> v] : k \in {"int", "float"}, v \in {0, 1}}

RenormTargets == {"peak", "Peak", "total", "sum"}

---------------------------------------------------------------------------
(* The operations of PSF.                                                  *)

\* radius is <<r>> for the scalar r and the list of radii for an iterable;
\* the two kinds of call are told apart in ret.op
encircled_energy(p, radius_is_array, radius) ==
    /\ ret = Idle
    /\ UNCHANGED <<cube, trace, ffd>>
    /\ IF radius_is_array
       THEN /\ psf' = SetSelf(psf, p, EncircledEnergyArrayState(psf[p], radius))
            /\ ret' = Ret("encircled_energy_array", p, radius,
                          EncircledEnergyArrayOut(psf[p], radius), FALSE, "ok")
       ELSE LET s == EncircledEnergyState(psf[p], radius[1])
            IN  /\ psf' = SetSelf(psf, p, s)
                /\ ret' = Ret("encircled_energy", p, radius,
                              <<DictGet(s.ee, radius[1])>>, FALSE, "ok")

\* a faulty ee_radius that never looks for a stored energy
EeRadiusAlwaysMinimizes(op, p, energy) ==
    \E probes \in ProbeLists : \E i \in 1..Len(probes) :
        /\ ret = Idle
        /\ psf' = SetSelf(psf, p, MemoizeEach(ComputeMTF(psf[p]), probes))
        /\ ret' = Ret(op, p, <<energy>>, <<probes[i]>>, TRUE, "ok")
        /\ UNCHANGED <<cube, trace, ffd>>

\* ee_radius, and ee_radius_ratio_to_diffraction which calls it first and
\* divides its result by the analytic radius (the quotient touches no state
\* and out keeps the radius ee_radius found); optimize.golden probes some
\* radii through optfcn and returns one of them
ee_radius_call(op, p, energy) ==
    LET k == DictKeys(psf[p].ee)
        v == DictValues(psf[p].ee)
    IN  IF InSeq(energy, v)
        THEN /\ ret = Idle
             /\ ret' = Ret(op, p, <<energy>>, <<k[IndexOf(energy, v)]>>, FALSE, "ok")
             /\ UNCHANGED <<psf, cube, trace, ffd>>
        ELSE \E probes \in ProbeLists : \E i \in 1..Len(probes) :
             /\ ret = Idle
             /\ psf' = SetSelf(psf, p, MemoizeEach(ComputeMTF(psf[p]), probes))
             /\ ret' = Ret(op, p, <<energy>>, <<probes[i]>>, TRUE, "ok")
             /\ UNCHANGED <<cube, trace, ffd>>

ee_radius(p, energy) == ee_radius_call("ee_radius", p, energy)

ee_radius_ratio_to_diffraction(p, energy) ==
    ee_radius_call("ee_radius_ratio_to_diffraction", p, energy)

\* "axlim is 0": identity with the int 0
IsZero(axlim) == axlim.kind = "int" /\ axlim.val = 0

\* the pairs of a set of (x, y), ascending in x
RECURSIVE SortPairs(_)
SortPairs(S) ==
    IF S = {} THEN <<>>
    ELSE LET m == CHOOSE a \in S : \A b \in S : a[1] <= b[1]
         IN  <<m>> \o SortPairs(S \ {m})

\* sort_xy(d.keys(), d.values()): <<xx, yy>>
SortXY(d) ==
    LET s == SortPairs({d[i] : i \in 1..Len(d)})
    IN  <<[i \in 1..Len(s) |-> s[i][1]], [i \in 1..Len(s) |-> s[i][2]]>>

\* a faulty test of the cache that never finds it empty
CacheNeverEmpty(d) == TRUE

\* "len(self._ee) is not 0"
CacheNotEmpty(d) == Len(d) # 0

plot_encircled_energy(p, axlim, npts) ==
    /\ ret = Idle
    /\ UNCHANGED <<cube, trace, ffd>>
    /\ IF axlim.kind = "None"
       THEN /\ UNCHANGED psf
            /\ ret' = IF CacheNotEmpty(psf[p].ee)
                      THEN [Ret("plot_encircled_energy", p, SortXY(psf[p].ee)[1],
                                SortXY(psf[p].ee)[2], FALSE, "ok")
                               EXCEPT !.axlim = axlim]
                      ELSE [Ret("plot_encircled_energy", p, NoArg, NoArg, FALSE,
                                "ValueError") EXCEPT !.axlim = axlim]
       ELSE IF IsZero(axlim)
       THEN /\ UNCHANGED psf
            /\ ret' = [Ret("plot_encircled_energy", p, NoArg, NoArg, FALSE,
                           "ValueError") EXCEPT !.axlim = axlim]
       ELSE LET xx == Linspace(LinspaceStart, axlim.val, npts)
            IN  /\ psf' = SetSelf(psf, p, EncircledEnergyArrayState(psf[p], xx))
                /\ ret' = [Ret("plot_encircled_energy", p, xx,
                               EncircledEnergyArrayOut(psf[p], xx), FALSE, "ok")
                              EXCEPT !.axlim = axlim]

\* data /= data.max(), data /= data.sum()
RenormData(data, to) ==
    IF Lower(to) = "peak"
    THEN [k \in 1..Len(data) |-> (data[k] * One) \div MaxSeq(data)]
    ELSE IF Lower(to) = "total"
    THEN [k \in 1..Len(data) |-> (data[k] * One) \div SumSeq(data)]
    ELSE data

\* a faulty _renorm that drops what was derived from the old data
RenormInvalidating(p, to) ==
    /\ ret = Idle
    /\ psf' = SetSelf(psf, p, [psf[p] EXCEPT !.data = RenormData(@, to), !.ee = <<>>])
    /\ ret' = Ret("_renorm", p, NoArg, NoArg, FALSE, "ok")
    /\ UNCHANGED <<cube, trace, ffd>>

\* a faulty _renorm that forgets the MTF of the old data
RenormDroppingMtf(p, to) ==
    /\ ret = Idle
    /\ psf' = SetSelf(psf, p, [psf[p] EXCEPT !.data = RenormData(@, to),
                                             !.mtf = <<>>, !.nu_p = <<>>, !.dn = <<>>])
    /\ ret' = Ret("_renorm", p, NoArg, NoArg, FALSE, "ok")
    /\ UNCHANGED <<cube, trace, ffd>>

renorm(p, to) ==
    /\ ret = Idle
    /\ psf' = SetSelf(psf, p, [psf[p] EXCEPT !.data = RenormData(@, to)])
    /\ ret' = Ret("_renorm", p, NoArg, NoArg, FALSE, "ok")
    /\ UNCHANGED <<cube, trace, ffd>>

---------------------------------------------------------------------------
(* MTFvFvF: a cube is [data, focus, field, freq] with data[focus][field]   *)
(* [freq]; numpy indices are 0-based, sequences 1-based.                   *)
(* A result is [algorithm, status, den, num, field]: focus value number j  *)
(* is num[j] / den, and field is the second element of the returned pair.  *)

NoCube == [data |-> <<>>, focus |-> <<>>, field |-> <<>>, freq |-> <<>>]

NoTrace == [algorithm |-> "", status |-> "none", den |-> 1, num |-> <<>>, field |-> <<>>]

MTFvFvFInit(data, focus, field, freq) ==
    [data |-> data, focus |-> focus, field |-> field, freq |-> freq]

\* a focus axis with uneven steps, in um
FocusAxis == <<-10, -5, 5>>

FieldAxes == {<<0>>, <<0, 7>>}

FreqAxes == {<<0>>, <<10>>, <<0, 10>>, <<10, 20>>, <<0, 10, 20>>, <<10, 20, 30>>}

\* the shapes (field, freq) of the cubes: at most four through-focus curves
Shapes == {sh \in FieldAxes \X FreqAxes : Len(sh[1]) * Len(sh[2]) <= 4}

MTFValues == {0, 1}

\* a cube measured at one focus position only
SingleFocus == <<3>>

FocusAxes == {FocusAxis, SingleFocus}

Cubes ==
    UNION {{MTFvFvFInit(d, fo, sh[1], sh[2]) :
               d \in [1..Len(fo) -> [1..Len(sh[1]) -> [1..Len(sh[2]) -> MTFValues]]]} :
           fo \in FocusAxes, sh \in Shapes}

Algorithms == {"0.5", "avg", "AVG", "average", "Average", "bogus", "0.50", "Mean"}

\* np.searchsorted(a, v): how many elements lie below v
SearchSorted(a, v) == Cardinality({i \in 1..Len(a) : a[i] < v})

\* a faulty argmax that reports the last focus index holding the maximum
ArgMaxFocusLast(data, j, k) ==
    (CHOOSE i \in 1..Len(data) :
        /\ \A i2 \in 1..Len(data) : data[i2][j][k] <= data[i][j][k]
        /\ \A i2 \in (i + 1)..Len(data) : data[i2][j][k] < data[i][j][k]) - 1

\* data.argmax(axis=0)[j, k]: the first focus index holding the maximum
ArgMaxFocus(data, j, k) ==
    (CHOOSE i \in 1..Len(data) :
        /\ \A i2 \in 1..Len(data) : data[i2][j][k] <= data[i][j][k]
        /\ \A i2 \in 1..(i - 1) : data[i2][j][k] < data[i][j][k]) - 1

\* a faulty selection that keeps the zero-frequency channel
IncludedChannelsAll(c) == 1..Len(c.freq)

\* "[:, 1:]" when freq[0] == 0, every channel otherwise
IncludedChannels(c) ==
    IF c.freq[1] = 0 THEN 2..Len(c.freq) ELSE 1..Len(c.freq)

RECURSIVE SumOver(_, _, _, _)
SumOver(data, j, ks, hi) ==
    IF hi = 0 THEN 0
    ELSE (IF hi \in ks THEN ArgMaxFocus(data, j, hi) ELSE 0) + SumOver(data, j, ks, hi - 1)

\* the numerator of .mean(axis=1)[j]; the denominator is the channel count
IndexSum(c, j) == SumOver(c.data, j, IncludedChannels(c), Len(c.freq))

\* floor and ceil of the fraction s / n
Floor(s, n) == s \div n

Ceil(s, n) == 0 - ((0 - s) \div n)

\* a faulty interpolation whose part is idx, not idx % 1
FocusOutWholePart(focus, s, n) ==
    LET li == Floor(s, n)
        ri == Ceil(s, n)
        lf == focus[li + 1]
        rf == focus[ri + 1]
        diff == rf - lf
    IN  lf * n + diff * s

\* n * (lf + diff * part) for idx = s / n
FocusOut(focus, s, n) ==
    LET li == Floor(s, n)
        ri == Ceil(s, n)
        lf == focus[li + 1]
        rf == focus[ri + 1]
        diff == rf - lf
    IN  lf * n + diff * (s % n)

\* data[:, j, k].max(axis=0)
MaxOverFocus(data, j, k) == MaxSeq([i \in 1..Len(data) |-> data[i][j][k]])

Abs(x) == IF x < 0 THEN 0 - x ELSE x

\* ndarray.argmin(): the first index holding the minimum
ArgMinSeq(s) ==
    (CHOOSE i \in 1..Len(s) :
        /\ \A i2 \in 1..Len(s) : s[i] <= s[i2]
        /\ \A i2 \in 1..(i - 1) : s[i] < s[i2]) - 1

\* ndarray.argmin(axis): numpy refuses an axis the array does not have
AxisExists(ndim, axis) == axis < ndim

\* a faulty mean that divides by the number of all channels
TraceAverageAllCount(c, algorithm) ==
    LET n == Len(c.freq)
    IN  [algorithm |-> algorithm, status |-> "ok", den |-> n,
         num |-> [j \in 1..Len(c.field) |-> FocusOut(c.focus, IndexSum(c, j), n)],
         field |-> c.field]

\* the 'avg' branch
TraceAverage(c, algorithm) ==
    LET n == Cardinality(IncludedChannels(c))
    IN  IF n = 0
        \* the mean of no channel is nan, and floor(nan) raises
        THEN [algorithm |-> algorithm, status |-> "ValueError", den |-> 1,
              num |-> <<>>, field |-> <<>>]
        ELSE [algorithm |-> algorithm, status |-> "ok", den |-> n,
              num |-> [j \in 1..Len(c.field) |-> FocusOut(c.focus, IndexSum(c, j), n)],
              field |-> c.field]

\* the '0.5' branch: data[:, idx_axis, :].max(axis=0) has one axis, and
\* argmin(axis=1) is asked of it
TraceHalf(c, algorithm) ==
    LET idx_axis == SearchSorted(c.field, 0)
        idx_freq == ArgMinSeq([k \in 1..Len(c.freq) |->
                                  Abs(2 * MaxOverFocus(c.data, idx_axis + 1, k) - 1)])
    IN  IF AxisExists(1, 1)
        THEN [algorithm |-> algorithm, status |-> "ok", den |-> 1,
              num |-> [j \in 1..Len(c.field) |->
                          c.focus[ArgMaxFocus(c.data, j, idx_freq + 1) + 1]],
              field |-> c.field]
        ELSE [algorithm |-> algorithm, status |-> "AxisError", den |-> 1,
              num |-> <<>>, field |-> <<>>]

\* a faulty dispatch that traces the average for every name it does not know
TraceFocusLenient(c, algorithm) ==
    IF algorithm = "0.5" THEN TraceHalf(c, algorithm)
    ELSE TraceAverage(c, algorithm)

TraceFocusResult(c, algorithm) ==
    IF algorithm = "0.5" THEN TraceHalf(c, algorithm)
    ELSE IF Lower(algorithm) \in {"avg", "average"} THEN TraceAverage(c, algorithm)
    ELSE [algorithm |-> algorithm, status |-> "ValueError", den |-> 1,
          num |-> <<>>, field |-> <<>>]

trace_focus(algorithm) ==
    /\ cube # NoCube
    /\ trace' = TraceFocusResult(cube, algorithm)
    /\ UNCHANGED <<psf, ret, cube, ffd>>

---------------------------------------------------------------------------
(* MTFFFD: the full-field display built from Trioptics files.  A file is   *)
(* what read_trioptics_mtf_vs_field returns for it: [field, freq, tan,     *)
(* sag] with tan[freq][field].  Positions are exact integers.              *)
(* ffd is the last call of a constructor: its arguments, how it ended and  *)
(* what it returned.                                                       *)

MTFFFDInit(data, field_x, field_y, freq) ==
    [data |-> data, field_x |-> field_x, field_y |-> field_y, freq |-> freq]

NoRet == [kind |-> "", items |-> <<>>]

NoFFD == [op |-> "", paths |-> <<>>, azimuths |-> <<>>, upsample |-> 0,
          ret |-> NoRet, status |-> "none", out |-> <<>>]

\* two image heights and two frequencies per file
TriopticsFiles ==
    {[field |-> f, freq |-> <<10, 20>>, tan |-> m, sag |-> <<m[2], m[1]>>] :
        f \in {<<0, 3>>, <<-3, 3>>},
        m \in {<<<<1, 0>>, <<0, 0>>>>, <<<<0, 1>>, <<1, 1>>>>}}

\* azimuths in degrees whose cosine and sine are whole
Azimuths == {0, 90, 180}

Upsamples == {1, 2}

\* ret: a tuple or a list of names
RetArgs ==
    {[kind |-> "tuple", items |-> <<"tan", "sag">>],
     [kind |-> "list", items |-> <<"tan", "sag">>],
     [kind |-> "tuple", items |-> <<"sag", "tan">>],
     [kind |-> "tuple", items |-> <<"tan">>]}

\* cos(radians(a)) and sin(radians(a)), rounded to the position unit
CosDegrees(a) == CASE a = 0 -> 1 [] a = 90 -> 0 [] a = 180 -> -1

SinDegrees(a) == CASE a = 0 -> 0 [] a = 90 -> 1 [] a = 180 -> 0

Min2(a, b) == IF a <= b THEN a ELSE b

RECURSIVE Ravel(_)
Ravel(rows) == IF rows = <<>> THEN <<>> ELSE Head(rows) \o Ravel(Tail(rows))

MinSeq(s) == 0 - MaxSeq([i \in 1..Len(s) |-> 0 - s[i]])

\* np.meshgrid(x, y), indexing 'xy': xx[i][j] = x[j], yy[i][j] = y[i]
MeshGridXX(x, y) == [i \in 1..Len(y) |-> [j \in 1..Len(x) |-> x[j]]]

MeshGridYY(x, y) == [i \in 1..Len(y) |-> [j \in 1..Len(x) |-> y[i]]]

\* scipy's linear interpolant of the scattered (points, values), evaluated
\* at xi: kept as the term that names the three
Interpolant(points, values, xi) == [points |-> points, values |-> values, xi |-> xi]

\* griddata(points, values, (xx, yy)): one value per grid entry
Griddata(points, values, xx, yy) ==
    [i \in 1..Len(xx) |-> [j \in 1..Len(xx[i]) |->
        Interpolant(points, values, <<xx[i][j], yy[i][j]>>)]]

\* np.rollaxis(a, 0, 3): out[i][j][k] = a[k][i][j]
Rollaxis(a) ==
    [i \in 1..Len(a[1]) |-> [j \in 1..Len(a[1][1]) |-> [k \in 1..Len(a) |-> a[k][i][j]]]]

\* ret == ('tan', 'sag'): a list never equals a tuple
RetIsTanSag(r) == r.kind = "tuple" /\ r.items = <<"tan", "sag">>

\* "raise NotImplemented(...)": NotImplemented is not an exception class and
\* not callable, so the statement raises TypeError
RaiseNotImplemented == "TypeError"

FFDCall(op, paths, azimuths, upsample, r, status, out) ==
    [op |-> op, paths |-> paths, azimuths |-> azimuths, upsample |-> upsample,
     ret |-> r, status |-> status, out |-> out]

\* the two cubes, or <<>> when the request is not ('tan', 'sag')
TriopticsCubes(paths, azimuths, upsample, r) ==
    LET n == Min2(Len(paths), Len(azimuths))
        xs == [p \in 1..n |-> [f \in 1..Len(paths[p].field) |->
                  paths[p].field[f] * CosDegrees(azimuths[p])]]
        ys == [p \in 1..n |-> [f \in 1..Len(paths[p].field) |->
                  paths[p].field[f] * SinDegrees(azimuths[p])]]
        farr == [p \in 1..n |-> paths[p].freq]
        val_tan == [p \in 1..n |-> paths[p].tan]
        val_sag == [p \in 1..n |-> paths[p].sag]
        npts == Len(xs[1]) * upsample
        out_x == Linspace(MinSeq(Ravel(xs)), MaxSeq(Ravel(xs)), npts)
        out_y == Linspace(MinSeq(Ravel(ys)), MaxSeq(Ravel(ys)), npts)
        xx == MeshGridXX(out_x, out_y)
        yy == MeshGridYY(out_x, out_y)
        sample_pts == [i \in 1..Len(Ravel(xs)) |-> <<Ravel(xs)[i], Ravel(ys)[i]>>]
        interpt == [idx \in 1..Len(val_tan[1]) |->
                       Griddata(sample_pts, Ravel([p \in 1..n |-> val_tan[p][idx]]), xx, yy)]
        interps == [idx \in 1..Len(val_sag[1]) |->
                       Griddata(sample_pts, Ravel([p \in 1..n |-> val_sag[p][idx]]), xx, yy)]
    IN  IF RetIsTanSag(r)
        THEN <<MTFFFDInit(Rollaxis(interpt), out_x, out_y, farr[1]),
               MTFFFDInit(Rollaxis(interps), out_x, out_y, farr[1])>>
        ELSE <<>>

from_trioptics_files(paths, azimuths, upsample, r) ==
    /\ ffd = NoFFD
    /\ ffd' = FFDCall("from_trioptics_files", paths, azimuths, upsample, r,
                      IF RetIsTanSag(r) THEN "ok" ELSE RaiseNotImplemented,
                      TriopticsCubes(paths, azimuths, upsample, r))
    /\ UNCHANGED <<psf, ret, cube, trace>>

from_dataframe(df, azimuth) ==
    /\ ffd = NoFFD
    /\ ffd' = FFDCall("from_dataframe", <<df>>, <<azimuth>>, 0, NoRet,
                      RaiseNotImplemented, <<>>)
    /\ UNCHANGED <<psf, ret, cube, trace>>

\* the caller takes what the constructor returned or raised
ReturnFFD ==
    /\ ffd # NoFFD
    /\ ffd' = NoFFD
    /\ UNCHANGED <<psf, ret, cube, trace>>

---------------------------------------------------------------------------

\* the caller takes the value the last call returned
Return ==
    /\ ret # Idle
    /\ ret' = Idle
    /\ UNCHANGED <<psf, cube, trace, ffd>>

Init ==
    /\ psf = [p \in PSFs |-> PSFInit(MtfX, MtfY, SpotData)]
    /\ ret = Idle
    /\ cube = NoCube
    /\ trace = NoTrace
    /\ ffd = NoFFD

Next ==
    \/ Return
    \/ \E p \in PSFs, r \in Radii : encircled_energy(p, FALSE, <<r>>)
    \/ \E p \in PSFs, rs \in RadiusLists : encircled_energy(p, TRUE, rs)
    \/ \E p \in PSFs, e \in Energies : ee_radius(p, e)
    \/ \E p \in PSFs, e \in Energies : ee_radius_ratio_to_diffraction(p, e)
    \/ \E p \in PSFs, a \in AxLims, n \in 1..MaxPts : plot_encircled_energy(p, a, n)
    \/ \E p \in PSFs, to \in RenormTargets : renorm(p, to)

Spec == Init /\ [][Next]_vars

\* one cube, traced any number of times
InitTrace ==
    /\ psf = [p \in PSFs |-> PSFInit(MtfX, MtfY, SpotData)]
    /\ ret = Idle
    /\ cube \in Cubes
    /\ trace = NoTrace
    /\ ffd = NoFFD

NextTrace == \E a \in Algorithms : trace_focus(a)

SpecTrace == InitTrace /\ [][NextTrace]_vars

\* the constructors of MTFFFD, called on the files of two azimuths
PathLists == [1..2 -> TriopticsFiles]

\* one azimuth per path, or one more than there are paths; the first two
\* lie along different axes, so that the samples span the plane and the
\* triangulation under griddata exists
AzimuthLists ==
    {a \in [1..2 -> Azimuths] \cup [1..3 -> Azimuths] :
        (CosDegrees(a[1]) = 0) # (CosDegrees(a[2]) = 0)}

DataFrames == {"df"}

NextFFD ==
    \/ ReturnFFD
    \/ \E paths \in PathLists, azimuths \in AzimuthLists, upsample \in Upsamples,
          r \in RetArgs : from_trioptics_files(paths, azimuths, upsample, r)
    \/ \E df \in DataFrames, azimuth \in {"tan", "sag"} : from_dataframe(df, azimuth)

SpecFFD == Init /\ [][NextFFD]_vars

---------------------------------------------------------------------------
(* The claims about the encircled-energy cache, checked under Spec.        *)

\* C1: every radius passed to encircled_energy, alone or in an iterable, is
\* a key of the instance's cache when the call returns, the value returned
\* for it is the stored one, and over any sequence of calls
\* _encircled_energy_core runs at most once per radius and instance.
C1_MemoizedOnce ==
    /\ \A p \in PSFs : \A i, j \in 1..Len(psf[p].calls) :
           i # j => psf[p].calls[i] # psf[p].calls[j]
    /\ ret.op \in {"encircled_energy", "encircled_energy_array"} =>
           /\ Len(ret.out) = Len(ret.arg)
           /\ \A i \in 1..Len(ret.arg) :
                  /\ DictHas(psf[ret.self].ee, ret.arg[i])
                  /\ ret.out[i] = DictGet(psf[ret.self].ee, ret.arg[i])

\* a scalar request for the radius cached first, made when a second radius
\* was already cached: a repeated request
C1_Witness ==
    /\ ret.op = "encircled_energy"
    /\ Len(psf[ret.self].ee) >= 2
    /\ ret.arg[1] = psf[ret.self].ee[1][1]

\* C2: across every operation on a PSF the cache only grows: no key is
\* removed and no stored value changes.
C2_CacheOnlyGrows ==
    [][\A p \in PSFs : \A i \in 1..Len(psf[p].ee) :
           /\ DictHas(psf'[p].ee, psf[p].ee[i][1])
           /\ DictGet(psf'[p].ee, psf[p].ee[i][1]) = psf[p].ee[i][2]]_vars

\* _renorm has changed the data of an instance that holds cached energies
C2_Witness ==
    /\ ret.op = "_renorm"
    /\ psf[ret.self].data # SpotData
    /\ Len(psf[ret.self].ee) >= 2

\* C3: encircled_energy of an iterable returns one value per radius, in
\* input order, duplicates included; value i is what the scalar call for
\* radius i returns on the same instance, and each radius is cached.
C3_ArrayMatchesScalar ==
    ret.op = "encircled_energy_array" =>
        /\ Len(ret.out) = Len(ret.arg)
        /\ \A i \in 1..Len(ret.arg) :
               /\ DictHas(psf[ret.self].ee, ret.arg[i])
               /\ ret.out[i] =
                      DictGet(EncircledEnergyState(psf[ret.self], ret.arg[i]).ee,
                              ret.arg[i])

\* an iterable that names one radius twice
C3_Witness ==
    /\ ret.op = "encircled_energy_array"
    /\ Len(ret.arg) = 2
    /\ ret.arg[1] = ret.arg[2]
    /\ Len(ret.out) = 2

\* C4: ee_radius of an energy that is stored for some cached radius returns
\* a cached radius holding that energy, without the minimizer and without
\* touching the cache; of any other energy it takes the minimizer path.
C4_ExactMatchShortCircuit ==
    [][ret'.op = "ee_radius" =>
          LET ee == psf[ret'.self].ee
          IN  IF InSeq(ret'.arg[1], DictValues(ee))
              THEN /\ ~ret'.minimized
                   /\ psf' = psf
                   /\ DictHas(ee, ret'.out[1])
                   /\ DictGet(ee, ret'.out[1]) = ret'.arg[1]
              ELSE ret'.minimized]_vars

\* ee_radius answered from a cache of two radii
C4_Witness ==
    /\ ret.op = "ee_radius"
    /\ ~ret.minimized
    /\ Len(psf[ret.self].ee) >= 2

\* C5 as stated: ee_radius(E) for E = encircled_energy(r0) recovers r0.  A
\* state in which r0 is cached with energy E is the state encircled_energy(r0)
\* leaves, so the claim is that the short-circuit returns every such r0.
C5_RoundTripRecovers ==
    (ret.op = "ee_radius" /\ ~ret.minimized) =>
        \A i \in 1..Len(psf[ret.self].ee) :
            psf[ret.self].ee[i][2] = ret.arg[1] => ret.out[1] = psf[ret.self].ee[i][1]

\* C5, amended: ee_radius(E) for E = encircled_energy(r0) is answered by the
\* short-circuit with a cached radius whose stored energy is E; it is r0
\* when no radius cached before r0 holds the same energy.
C5_RoundTripFirstCached ==
    [][ret'.op = "ee_radius" =>
          LET ee == psf[ret'.self].ee
          IN  \A i \in 1..Len(ee) :
                  ee[i][2] = ret'.arg[1] =>
                      /\ ~ret'.minimized
                      /\ DictHas(ee, ret'.out[1])
                      /\ DictGet(ee, ret'.out[1]) = ret'.arg[1]
                      /\ (\A j \in 1..(i - 1) : ee[j][2] # ret'.arg[1]) =>
                             ret'.out[1] = ee[i][1]]_vars

\* the short-circuit answered for an energy that two cached radii share
C5_Witness ==
    /\ ret.op = "ee_radius"
    /\ ~ret.minimized
    /\ \E i, j \in 1..Len(psf[ret.self].ee) :
           /\ i # j
           /\ psf[ret.self].ee[i][2] = ret.arg[1]
           /\ psf[ret.self].ee[j][2] = ret.arg[1]

\* C6: an operation on one PSF leaves the cache, the MTF and the radial
\* frequency field of every other PSF as they were.
C6_PerInstance ==
    [][ret' # Idle =>
          \A q \in PSFs \ {ret'.self} :
              /\ psf'[q].ee = psf[q].ee
              /\ psf'[q].mtf = psf[q].mtf
              /\ psf'[q].nu_p = psf[q].nu_p]_vars

\* a call has filled the cache of one instance while the other instance
\* holds a different, non-empty cache
C6_Witness ==
    /\ ret.op = "encircled_energy_array"
    /\ Len(psf[ret.self].ee) >= 2
    /\ \E q \in PSFs \ {ret.self} :
           /\ Len(psf[q].ee) = 1
           /\ psf[q].ee[1] # psf[ret.self].ee[1]


\* C12 as stated: plot_encircled_energy with an axis limit of 0, the int 0
\* or the float 0.0, is rejected before any energy is evaluated and leaves
\* the cache as it was.
C12_ZeroLimitRejected ==
    [][(/\ ret'.op = "plot_encircled_energy"
        /\ ret'.axlim.kind \in {"int", "float"}
        /\ ret'.axlim.val = 0) =>
           /\ ret'.status = "ValueError"
           /\ psf' = psf]_vars

C16_MtfBuiltOnce ==
    [][\A p \in PSFs :
          /\ \/ /\ psf'[p].mtf = <<>> /\ psf'[p].nu_p = <<>>
                /\ psf'[p].ee = <<>> /\ psf'[p].calls = <<>>
             \/ /\ psf'[p].mtf # <<>> /\ psf'[p].nu_p # <<>>
                /\ \A k \in 1..Len(psf'[p].nu_p) : psf'[p].nu_p[k] # 0
                /\ \E k \in 1..Len(psf'[p].nu_p) : psf'[p].nu_p[k] = TINY
          /\ psf[p].mtf # <<>> =>
                 /\ psf'[p].mtf = psf[p].mtf
                 /\ psf'[p].nu_p = psf[p].nu_p
          /\ (psf[p].mtf = <<>> /\ psf'[p].mtf # <<>>) =>
                 /\ ret'.self = p
                 /\ \/ ret'.op \in {"encircled_energy", "encircled_energy_array"}
                    \/ ret'.minimized
                    \/ ret'.op = "plot_encircled_energy" /\ ret'.axlim.kind # "None"
          /\ (ret'.self = p /\ ret'.op \in {"encircled_energy", "encircled_energy_array"}) =>
                 psf'[p].mtf # <<>>]_vars

\* _renorm has changed the data of an instance whose MTF was built before
C16_Witness ==
    /\ ret.op = "_renorm"
    /\ psf[ret.self].data # SpotData
    /\ psf[ret.self].mtf = MtfFromPsf(SpotData)
    /\ psf[ret.self].ee = <<>>

---------------------------------------------------------------------------
(* The claims about trace_focus, checked under SpecTrace.  The claims are  *)
(* stated with their own reading of the cube, not with the operators that  *)
(* model the code.                                                         *)

AverageNames == {"avg", "AVG", "average", "Average"}

\* the through-focus curve of field j and channel k
Curve(c, j, k) == [i \in 1..Len(c.data) |-> c.data[i][j][k]]

\* the first 0-based focus index at which the curve is maximal
PeakIndex(c, j, k) ==
    LET col == Curve(c, j, k)
        top == CHOOSE v \in {col[i] : i \in 1..Len(col)} : \A i \in 1..Len(col) : col[i] <= v
    IN  (CHOOSE i \in 1..Len(col) : col[i] = top /\ \A i2 \in 1..(i - 1) : col[i2] # top) - 1

\* every channel except channel 0 when freq[0] = 0
ChannelsExceptZeroFrequency(c) == {k \in 1..Len(c.freq) : ~(k = 1 /\ c.freq[1] = 0)}

RECURSIVE PeakSum(_, _, _)
PeakSum(c, j, ks) ==
    IF ks = {} THEN 0
    ELSE LET k == CHOOSE x \in ks : TRUE
         IN  PeakIndex(c, j, k) + PeakSum(c, j, ks \ {k})

\* num / den = focus[floor(m)] + (focus[ceil(m)] - focus[floor(m)]) * frac(m)
\* for m = s / n
IsInterpolated(focus, s, n, num, den) ==
    \E fl, ce \in 0..(Len(focus) - 1) :
        /\ fl * n <= s /\ s < (fl + 1) * n
        /\ (ce - 1) * n < s /\ s <= ce * n
        /\ num * n = den * (focus[fl + 1] * n + (focus[ce + 1] - focus[fl + 1]) * (s - fl * n))

PeaksAt(c, k) ==
    \A j \in 1..Len(c.field) : \A ch \in 1..Len(c.freq) : PeakIndex(c, j, ch) = k

\* C8 as stated: on a cube whose every field and channel peaks at one focus
\* index k, 'avg' returns focus[k] for every field, and the field axis
\* unchanged with one value per field sample.
C8_ConstantPeak ==
    trace.algorithm \in AverageNames =>
        \A k \in 0..(Len(cube.focus) - 1) :
            PeaksAt(cube, k) =>
                /\ trace.status = "ok"
                /\ trace.field = cube.field
                /\ Len(trace.num) = Len(cube.field)
                /\ \A j \in 1..Len(cube.field) : trace.num[j] = cube.focus[k + 1] * trace.den

\* C8, amended: the same, for a cube that has a channel other than a
\* zero-frequency channel 0.
C8_ConstantPeakIncluded ==
    (trace.algorithm \in AverageNames /\ ChannelsExceptZeroFrequency(cube) # {}) =>
        \A k \in 0..(Len(cube.focus) - 1) :
            PeaksAt(cube, k) =>
                /\ trace.status = "ok"
                /\ trace.field = cube.field
                /\ Len(trace.num) = Len(cube.field)
                /\ \A j \in 1..Len(cube.field) : trace.num[j] = cube.focus[k + 1] * trace.den

\* two fields, a zero-frequency channel and a second channel, all peaking
\* at the middle focus sample, traced
C8_Witness ==
    /\ trace.algorithm = "avg"
    /\ trace.status = "ok"
    /\ Len(cube.field) = 2
    /\ cube.freq = <<0, 10>>
    /\ PeaksAt(cube, 1)

\* the cube with channel 0 replaced by z[focus][field]
WithChannelZero(c, z) ==
    [c EXCEPT !.data = [i \in 1..Len(c.data) |-> [j \in 1..Len(c.field) |->
        [k \in 1..Len(c.freq) |-> IF k = 1 THEN z[i][j] ELSE c.data[i][j][k]]]]]

\* C9: when freq[0] = 0, cubes with the same axes that differ in channel 0
\* alone get the same 'avg' result; when freq[0] # 0 every channel, channel
\* 0 included, enters the average.
C9_ZeroFrequencyExcluded ==
    trace.algorithm \in AverageNames =>
        /\ cube.freq[1] = 0 =>
               \A z \in [1..Len(cube.data) -> [1..Len(cube.field) -> MTFValues]] :
                   TraceFocusResult(WithChannelZero(cube, z), trace.algorithm) = trace
        /\ cube.freq[1] # 0 =>
               /\ trace.status = "ok"
               /\ trace.den = Len(cube.freq)
               /\ \A j \in 1..Len(cube.field) :
                      IsInterpolated(cube.focus, PeakSum(cube, j, 1..Len(cube.freq)),
                                     Len(cube.freq), trace.num[j], trace.den)

\* a trace that returned the first focus sample although the zero-frequency
\* channel peaks at the last one
C9_Witness ==
    /\ trace.algorithm = "average"
    /\ trace.status = "ok"
    /\ cube.freq[1] = 0
    /\ \E j \in 1..Len(cube.field) :
           /\ PeakIndex(cube, j, 1) = Len(cube.focus) - 1
           /\ trace.num[j] = cube.focus[1] * trace.den

\* the 0-based channel whose on-axis maximum over focus is closest to 0.5
HalfChannel(c) ==
    LET on_axis == Cardinality({j \in 1..Len(c.field) : c.field[j] < 0}) + 1
        dist(k) == LET top == CHOOSE v \in {c.data[i][on_axis][k] : i \in 1..Len(c.data)} :
                                  \A i \in 1..Len(c.data) : c.data[i][on_axis][k] <= v
                   IN  IF 2 * top >= 1 THEN 2 * top - 1 ELSE 1 - 2 * top
    IN  (CHOOSE k \in 1..Len(c.freq) :
            /\ \A k2 \in 1..Len(c.freq) : dist(k) <= dist(k2)
            /\ \A k2 \in 1..(k - 1) : dist(k) < dist(k2)) - 1

\* C10 as stated: '0.5' completes on every well-formed cube and returns,
\* for each field, the focus sample at the index of the maximum over focus
\* for the channel whose on-axis maximum is closest to 0.5.
C10_HalfCompletes ==
    trace.algorithm = "0.5" =>
        /\ trace.status = "ok"
        /\ Len(trace.num) = Len(cube.field)
        /\ \A j \in 1..Len(cube.field) :
               /\ trace.num[j] =
                      cube.focus[PeakIndex(cube, j, HalfChannel(cube) + 1) + 1] * trace.den
               /\ \E i \in 1..Len(cube.focus) : trace.num[j] = cube.focus[i] * trace.den

\* the names trace_focus supports
SupportedNames == {"0.5"} \cup AverageNames

\* C11: trace_focus with an algorithm name other than '0.5' and the spellings
\* of 'avg' and 'average' fails with ValueError, returns nothing, and leaves
\* the cube as it was.
C11_UnsupportedRejected ==
    [][(trace'.status # "none" /\ trace'.algorithm \notin SupportedNames) =>
           /\ trace'.status = "ValueError"
           /\ trace'.num = <<>>
           /\ trace'.field = <<>>
           /\ cube' = cube]_vars

\* a capitalised unsupported name, refused on a cube 'avg' could trace
C11_Witness ==
    /\ trace.algorithm = "Mean"
    /\ trace.status = "ValueError"
    /\ Len(cube.focus) = 3
    /\ cube.freq = <<10, 20>>

\* lo <= x <= hi or hi <= x <= lo
Between(x, lo, hi) == (lo <= x /\ x <= hi) \/ (hi <= x /\ x <= lo)

\* C17: in 'avg', on a cube with an included channel and a focus sample, the
\* mean index m of every field has 0 <= floor(m) <= ceil(m) <= len(focus) - 1
\* and the value returned lies between focus[floor(m)] and focus[ceil(m)].
C17_AverageInBounds ==
    (/\ trace.algorithm \in AverageNames
     /\ ChannelsExceptZeroFrequency(cube) # {}
     /\ Len(cube.focus) >= 1) =>
        /\ trace.status = "ok"
        /\ \A j \in 1..Len(cube.field) :
               LET s == PeakSum(cube, j, ChannelsExceptZeroFrequency(cube))
                   n == Cardinality(ChannelsExceptZeroFrequency(cube))
               IN  \E fl, ce \in 0..(Len(cube.focus) - 1) :
                       /\ fl * n <= s /\ s < (fl + 1) * n
                       /\ (ce - 1) * n < s /\ s <= ce * n
                       /\ fl <= ce
                       /\ Between(trace.num[j], cube.focus[fl + 1] * trace.den,
                                  cube.focus[ce + 1] * trace.den)

\* a mean index strictly between the last two focus samples
C17_Witness ==
    /\ trace.algorithm = "Average"
    /\ trace.status = "ok"
    /\ Len(cube.focus) = 3
    /\ \E j \in 1..Len(cube.field) :
           /\ cube.focus[2] * trace.den < trace.num[j]
           /\ trace.num[j] < cube.focus[3] * trace.den

---------------------------------------------------------------------------
(* The claims about the constructors of MTFFFD, checked under SpecFFD.     *)

\* C14 as stated: from_trioptics_files returns the (tangential, sagittal)
\* pair exactly when ret is ('tan', 'sag') and otherwise fails with a
\* not-implemented error and no cubes; from_dataframe always fails with a
\* not-implemented error.
C14_NotImplementedErrors ==
    /\ ffd.op = "from_trioptics_files" =>
           IF ffd.ret = [kind |-> "tuple", items |-> <<"tan", "sag">>]
           THEN ffd.status = "ok" /\ Len(ffd.out) = 2
           ELSE ffd.status = "NotImplementedError" /\ ffd.out = <<>>
    /\ ffd.op = "from_dataframe" =>
           ffd.status = "NotImplementedError" /\ ffd.out = <<>>

\* the Cartesian sample positions of the call, path after path
SampleXs(c) ==
    Ravel([p \in 1..Min2(Len(c.paths), Len(c.azimuths)) |->
              [f \in 1..Len(c.paths[p].field) |->
                  c.paths[p].field[f] * CosDegrees(c.azimuths[p])]])

SampleYs(c) ==
    Ravel([p \in 1..Min2(Len(c.paths), Len(c.azimuths)) |->
              [f \in 1..Len(c.paths[p].field) |->
                  c.paths[p].field[f] * SinDegrees(c.azimuths[p])]])

\* axis has n points that start at the least and end at the greatest of s
SpansSamples(axis, s, n) ==
    /\ Len(axis) = n
    /\ \A i \in 1..Len(s) : axis[1] <= s[i] /\ s[i] <= axis[n]
    /\ \E i \in 1..Len(s) : axis[1] = s[i]
    /\ \E i \in 1..Len(s) : axis[n] = s[i]

\* C15 as stated: each cube from_trioptics_files returns has
\* data.shape = (len(field_x), len(field_y), len(freq)), data[i, j, k] is the
\* value interpolated at (field_x[i], field_y[j]) for freq[k], and field_x and
\* field_y have upsample * (samples per azimuth) points from the least to
\* the greatest observed x and y.
C15_DataIndexedXYFreq ==
    (ffd.op = "from_trioptics_files" /\ ffd.status = "ok") =>
        \A c \in 1..Len(ffd.out) :
            LET m == ffd.out[c]
                npts == ffd.upsample * Len(ffd.paths[1].field)
            IN  /\ SpansSamples(m.field_x, SampleXs(ffd), npts)
                /\ SpansSamples(m.field_y, SampleYs(ffd), npts)
                /\ Len(m.data) = Len(m.field_x)
                /\ \A i \in 1..Len(m.data) :
                       /\ Len(m.data[i]) = Len(m.field_y)
                       /\ \A j \in 1..Len(m.data[i]) :
                              /\ Len(m.data[i][j]) = Len(m.freq)
                              /\ \A k \in 1..Len(m.freq) :
                                     m.data[i][j][k].xi = <<m.field_x[i], m.field_y[j]>>

====
